---- MODULE Spec2Model ----
(***************************************************************************)
(* Model of TerminalManager (src/terminal/terminal_manager.py): the        *)
(* pseudo-terminal session, its start/stop lifecycle, the bounded          *)
(* reconnection of _ensure_connection and the two-attempt execute_command. *)
(*                                                                         *)
(* Scheduling is asyncio's: one coroutine runs at a time and gives up the  *)
(* thread only at an await that really suspends (a sleep, a contended      *)
(* lock).  `running` is the task that holds the thread, 0 when every task  *)
(* is suspended or between calls.  Operating-system results (signals,      *)
(* closes, reads, writes, the clock) are chosen nondeterministically.      *)
(***************************************************************************)
EXTENDS Integers, Sequences, FiniteSets, TLC

\* ---- bounds of the model ------------------------------------------------
NumTasks == 2        \* coroutines that use the one TerminalManager
MaxPids == 2         \* process ids the OS can have in use for children at once
MaxCmdLen == 2       \* encoded length of command + "\n" ranges over 1..MaxCmdLen

\* ---- program constants --------------------------------------------------
MAX_RECONNECT_ATTEMPTS == 3
RangeAttempts == 2
None == 0

Tasks == 1 .. NumTasks
\* execute_command has a single logical caller per session (the bot's message
\* loop awaits each command before taking the next); the other tasks call
\* start, stop and _ensure_connection.
Executors == {1}
Pids == 1 .. MaxPids

VARIABLES
  master_fd, slave_fd, shell_pid, process_alive,   \* the session's fields
  reconnect_attempts,                              \* _reconnect_attempts
  lock_holder, lock_waiters,                       \* _reconnect_lock
  child,                                           \* OS: pid -> free|live|dead
  openFds,                                         \* OS: descriptors open in this process
  running,                                         \* event loop: the task on the thread
  pc, op, attempt,                                 \* per task: position, call, loop index
  ecRet, raised, exc, outcome,                     \* per task: results in flight
  phase, chunks, buffered, outNonEmpty, cwd,       \* per task: reader and executor locals
  stopRaised,                                      \* history: a stop() call has raised
  ecLockAtt, ecLockAlive, ecCycle,                 \* history of the current _ensure_connection
  ecAttBefore, ecStartRaised,
  consecFails, budgetHit,                          \* history of reconnection cycles
  ecCalls, cmdWrites, exc0,                        \* history of the current execute_command
  exIncs, shortAt, readAfterShort, readSameAttempt,
  pwdWriteFailed, readFailed,                     \* history of the current attempt's I/O
  clCommand, clOutput, clResult, clPc,             \* a call of _clean_output
  rxNow,                                           \* the event loop's clock
  rxSource, rxNext, rxIdle,                        \* what the descriptor yields, and when
  rxTimeout, rxPc, rxAttempt, rxExc, rxText,       \* a timed attempt of execute_command
  rxDrainStart,                                    \* start_time of _clear_initial_output
  output_chunks, start_time, last_read_time,       \* locals of _read_terminal_output
  retry_count, buffer,
  rxBytesRead, rxIdleRun,                          \* history of the current reader call
  rxPhase, rxOutput, rxCwd,                        \* _get_current_directory after the read
  rxReplies, rxReplied                             \* the shell's answer to the pwd probe

sessVars == <<master_fd, slave_fd, shell_pid, process_alive, child, openFds>>
lockVars == <<lock_holder, lock_waiters>>
callVars == <<op, attempt>>
readVars == <<phase, chunks, buffered, outNonEmpty, cwd>>
ecHist   == <<ecLockAtt, ecLockAlive, ecCycle, ecAttBefore, ecStartRaised>>
cycHist  == <<consecFails, budgetHit>>
ioHist   == <<pwdWriteFailed, readFailed>>
exHist   == <<ecCalls, cmdWrites, exc0, exIncs, shortAt, readAfterShort, readSameAttempt,
              ioHist>>
tmVars == <<master_fd, slave_fd, shell_pid, process_alive, reconnect_attempts,
          lock_holder, lock_waiters, child, openFds, running, pc, op, attempt,
          ecRet, raised, exc, outcome, phase, chunks, buffered,
          outNonEmpty, cwd, stopRaised, ecLockAtt, ecLockAlive, ecCycle,
          ecAttBefore, ecStartRaised,
          consecFails, budgetHit, ecCalls, cmdWrites, exc0, exIncs, shortAt,
          readAfterShort, readSameAttempt, pwdWriteFailed, readFailed>>

\* The calls of the pure and of the timed parts are studied on their own
\* (CleanSpec below); the session model leaves their variables alone.
cleanVars == <<clCommand, clOutput, clResult, clPc>>
rdrVars == <<rxNow, rxSource, rxNext, rxIdle, rxTimeout, rxPc, rxAttempt, rxExc, rxText,
             rxDrainStart, output_chunks, start_time, last_read_time, retry_count,
             buffer, rxBytesRead, rxIdleRun,
             rxPhase, rxOutput, rxCwd, rxReplies, rxReplied>>
pwdVars == <<rxPhase, rxOutput, rxCwd, rxReplies, rxReplied>>
harnessVars == <<cleanVars, rdrVars>>
vars == <<tmVars, harnessVars>>

\* The session and the OS objects it owns, as one record.
W == [master_fd |-> master_fd, slave_fd |-> slave_fd, shell_pid |-> shell_pid,
      process_alive |-> process_alive, child |-> child, openFds |-> openFds]

SetW(w) ==
  /\ master_fd' = w.master_fd
  /\ slave_fd' = w.slave_fd
  /\ shell_pid' = w.shell_pid
  /\ process_alive' = w.process_alive
  /\ child' = w.child
  /\ openFds' = w.openFds

\* A coroutine may take a step when it holds the thread or nobody does.
Sched(t) == running \in {0, t}

\* ---- stop() -------------------------------------------------------------
\* os.kill(pid, SIGKILL): a live child is always found; one that has exited
\* is found while it is a zombie and not found once it has been reaped.
KillOutcomes(w) ==
  IF w.shell_pid = None THEN {"ok"}
  ELSE IF w.child[w.shell_pid] = "live" THEN {"ok"}
  ELSE {"ok", "ProcessLookupError"}

CloseOutcomes == {"ok", "OSError"}

\* with contextlib.suppress(ProcessLookupError)
KillSuppressed(e) == e \in {"ok", "ProcessLookupError"}

CloseCaught_NoHandler(e) == e = "ok"
\* try: os.close(fd) except OSError: logger.warning(...)
CloseCaught(e) == e \in {"ok", "OSError"}

Kill_NoSignal(w) == w
\* After os.kill(pid, SIGKILL) the tracked child does not run: it was
\* killed by the signal, or was already gone (ProcessLookupError).  Nothing
\* refers to a killed child again, so its process id is free for reuse.
Kill(w) == [w EXCEPT !.child[w.shell_pid] = "free"]

\* stop() with the OS answering k to the kill, cm and cs to the two closes.
stop(w, k, cm, cs) ==
  LET w1 == IF w.shell_pid # None THEN Kill(w) ELSE w
      r1 == w.shell_pid # None /\ ~KillSuppressed(k)
      w2 == IF w1.master_fd # None
              THEN [w1 EXCEPT !.openFds = @ \ {w1.master_fd}] ELSE w1
      r2 == w1.master_fd # None /\ ~CloseCaught(cm)
      w3 == IF w2.slave_fd # None
              THEN [w2 EXCEPT !.openFds = @ \ {w2.slave_fd}] ELSE w2
      r3 == w2.slave_fd # None /\ ~CloseCaught(cs)
      w4 == [w3 EXCEPT !.master_fd = None, !.slave_fd = None,
                       !.shell_pid = None, !.process_alive = FALSE]
  IN  IF r1 THEN [w |-> w1, raised |-> TRUE]
      ELSE IF r2 THEN [w |-> w2, raised |-> TRUE]
      ELSE IF r3 THEN [w |-> w3, raised |-> TRUE]
      ELSE [w |-> w4, raised |-> FALSE]

StopResults(w) ==
  { stop(w, k, cm, cs) : k \in KillOutcomes(w), cm \in CloseOutcomes, cs \in CloseOutcomes }

\* ---- start(): lines 79-134, up to the first suspension -------------------
LowestFree(S) ==
  CHOOSE n \in 1 .. (Cardinality(S) + 1) : n \notin S /\ \A m \in 1 .. (n - 1) : m \in S

FreePids(w) == { c \in Pids : w.child[c] = "free" }
NextPid(w) == CHOOSE c \in FreePids(w) : \A d \in FreePids(w) : c <= d

\* Where the straight-line part of start() may raise; "none" is no failure.
\* fork fails when the OS has no process left to give.
StartFailPoints(w) ==
  {"openpty", "termios", "fork"}
    \cup (IF FreePids(w) # {} THEN {"close_slave", "fcntl", "none"} ELSE {})

StartBody(w, fail) ==
  LET m  == LowestFree(w.openFds)
      s  == LowestFree(w.openFds \cup {m})
      w1 == [w EXCEPT !.master_fd = m, !.slave_fd = s, !.openFds = @ \cup {m, s}]
      p  == NextPid(w)
      w2 == [w1 EXCEPT !.shell_pid = p, !.child[p] = "live"]
      w3 == [w2 EXCEPT !.openFds = @ \ {s}, !.slave_fd = None, !.process_alive = TRUE]
  IN  CASE fail = "openpty"     -> [w |-> w,  raised |-> TRUE]
        [] fail = "termios"     -> [w |-> w1, raised |-> TRUE]
        [] fail = "fork"        -> [w |-> w1, raised |-> TRUE]
        [] fail = "close_slave" -> [w |-> w2, raised |-> TRUE]
        [] fail = "fcntl"       -> [w |-> w3, raised |-> TRUE]
        [] OTHER                -> [w |-> w3, raised |-> FALSE]

\* ---- the initial state: a constructed, never started manager -----------
CleanIdle ==
  clCommand = <<>> /\ clOutput = <<>> /\ clResult = <<>> /\ clPc = "idle"

ReaderIdle ==
  /\ rxNow = 0 /\ rxSource = <<>> /\ rxNext = 0 /\ rxIdle = "BlockingIOError"
  /\ rxTimeout = 0 /\ rxPc = "idle" /\ rxAttempt = 0 /\ rxExc = "none" /\ rxText = <<>>
  /\ rxDrainStart = 0
  /\ output_chunks = <<>> /\ start_time = 0 /\ last_read_time = 0
  /\ retry_count = 0 /\ buffer = <<>>
  /\ rxBytesRead = <<>> /\ rxIdleRun = 0
  /\ rxPhase = "cmd" /\ rxOutput = <<>> /\ rxCwd = <<>>
  /\ rxReplies = FALSE /\ rxReplied = FALSE

SessionInit ==
  /\ master_fd = None /\ slave_fd = None /\ shell_pid = None
  /\ process_alive = FALSE
  /\ reconnect_attempts = 0
  /\ lock_holder = 0 /\ lock_waiters = <<>>
  /\ child = [c \in Pids |-> "free"]
  /\ openFds = {}
  /\ running = 0
  /\ pc = [t \in Tasks |-> "idle"]
  /\ op = [t \in Tasks |-> "none"]
  /\ attempt = [t \in Tasks |-> 0]
  /\ ecRet = [t \in Tasks |-> FALSE]
  /\ raised = [t \in Tasks |-> FALSE]
  /\ exc = [t \in Tasks |-> "none"]
  /\ outcome = [t \in Tasks |-> "none"]
  /\ phase = [t \in Tasks |-> "cmd"]
  /\ chunks = [t \in Tasks |-> FALSE]
  /\ buffered = [t \in Tasks |-> FALSE]
  /\ outNonEmpty = [t \in Tasks |-> FALSE]
  /\ cwd = [t \in Tasks |-> "none"]
  /\ stopRaised = FALSE
  /\ ecLockAtt = [t \in Tasks |-> -1]
  /\ ecLockAlive = [t \in Tasks |-> FALSE]
  /\ ecCycle = [t \in Tasks |-> FALSE]
  /\ ecAttBefore = [t \in Tasks |-> -1]
  /\ ecStartRaised = [t \in Tasks |-> FALSE]
  /\ consecFails = 0
  /\ budgetHit = FALSE
  /\ ecCalls = [t \in Tasks |-> 0]
  /\ cmdWrites = [t \in Tasks |-> 0]
  /\ exc0 = [t \in Tasks |-> "none"]
  /\ exIncs = [t \in Tasks |-> 0]
  /\ shortAt = [t \in Tasks |-> -1]
  /\ readAfterShort = [t \in Tasks |-> FALSE]
  /\ readSameAttempt = [t \in Tasks |-> FALSE]
  /\ pwdWriteFailed = [t \in Tasks |-> FALSE]
  /\ readFailed = [t \in Tasks |-> FALSE]

Init == SessionInit /\ CleanIdle /\ ReaderIdle

Upd(f, t, v) == [f EXCEPT ![t] = v]

\* ---- the callers --------------------------------------------------------
\* A task between calls invokes a public operation; the coroutine starts to
\* run when the event loop is free.
CallStart(t) ==
  /\ UNCHANGED harnessVars
  /\ running = 0 /\ pc[t] = "idle"
  /\ op' = Upd(op, t, "start") /\ pc' = Upd(pc, t, "start") /\ running' = t
  /\ UNCHANGED <<sessVars, reconnect_attempts, lockVars, attempt, ecRet,
                 raised, exc, outcome, readVars, stopRaised, ecHist, cycHist, exHist>>

CallStop(t) ==
  /\ UNCHANGED harnessVars
  /\ running = 0 /\ pc[t] = "idle"
  /\ op' = Upd(op, t, "stop") /\ pc' = Upd(pc, t, "stop") /\ running' = t
  /\ UNCHANGED <<sessVars, reconnect_attempts, lockVars, attempt, ecRet,
                 raised, exc, outcome, readVars, stopRaised, ecHist, cycHist, exHist>>

CallEnsure(t) ==
  /\ UNCHANGED harnessVars
  /\ running = 0 /\ pc[t] = "idle"
  /\ op' = Upd(op, t, "ensure") /\ pc' = Upd(pc, t, "ec") /\ running' = t
  /\ UNCHANGED <<sessVars, reconnect_attempts, lockVars, attempt, ecRet,
                 raised, exc, outcome, readVars, stopRaised, ecHist, cycHist, exHist>>

\* The call has returned or raised to its caller: the coroutine is gone.
Terminal == {"stop_ret", "start_done", "ec_done", "ex_done"}

Return(t) ==
  /\ UNCHANGED harnessVars
  /\ running = t /\ pc[t] \in Terminal
  /\ pc' = Upd(pc, t, "idle") /\ running' = 0
  /\ op' = Upd(op, t, "none") /\ attempt' = Upd(attempt, t, 0)
  /\ ecRet' = Upd(ecRet, t, FALSE) /\ raised' = Upd(raised, t, FALSE)
  /\ exc' = Upd(exc, t, "none") /\ outcome' = Upd(outcome, t, "none")
  /\ phase' = Upd(phase, t, "cmd") /\ chunks' = Upd(chunks, t, FALSE)
  /\ buffered' = Upd(buffered, t, FALSE) /\ outNonEmpty' = Upd(outNonEmpty, t, FALSE)
  /\ cwd' = Upd(cwd, t, "none")
  /\ ecLockAtt' = Upd(ecLockAtt, t, -1) /\ ecLockAlive' = Upd(ecLockAlive, t, FALSE)
  /\ ecCycle' = Upd(ecCycle, t, FALSE)
  /\ ecAttBefore' = Upd(ecAttBefore, t, -1)
  /\ ecStartRaised' = Upd(ecStartRaised, t, FALSE)
  /\ ecCalls' = Upd(ecCalls, t, 0) /\ cmdWrites' = Upd(cmdWrites, t, 0)
  /\ exc0' = Upd(exc0, t, "none") /\ shortAt' = Upd(shortAt, t, -1)
  /\ exIncs' = Upd(exIncs, t, 0)
  /\ readAfterShort' = Upd(readAfterShort, t, FALSE)
  /\ readSameAttempt' = Upd(readSameAttempt, t, FALSE)
  /\ pwdWriteFailed' = Upd(pwdWriteFailed, t, FALSE)
  /\ readFailed' = Upd(readFailed, t, FALSE)
  /\ UNCHANGED <<sessVars, reconnect_attempts, lockVars, stopRaised, cycHist>>

\* ---- stop(), at each place it is called ----------------------------------
\* "stop": the public call; "start": line 77; "st_except": line 144;
\* "ec_stop": line 61.  stop() has no suspension point: it is one step.
StopSites == {"stop", "start", "st_except", "ec_stop"}

StopStep(t) ==
  /\ UNCHANGED harnessVars
  /\ running = t /\ pc[t] \in StopSites
  /\ \E r \in StopResults(W) :
       /\ SetW(r.w)
       /\ stopRaised' = (stopRaised \/ r.raised)
       /\ CASE pc[t] = "stop" ->
                 /\ pc' = Upd(pc, t, "stop_ret") /\ raised' = Upd(raised, t, r.raised)
                 /\ running' = t /\ UNCHANGED ecHist
            [] pc[t] = "start" ->
                 /\ pc' = Upd(pc, t, IF r.raised THEN "st_except" ELSE "st_body")
                 /\ running' = t /\ UNCHANGED <<raised, ecHist>>
            [] pc[t] = "st_except" ->
                 /\ pc' = Upd(pc, t, "st_ret") /\ raised' = Upd(raised, t, TRUE)
                 /\ running' = t /\ UNCHANGED ecHist
            [] pc[t] = "ec_stop" ->
                 \* a raise is caught by line 69; otherwise asyncio.sleep(1) suspends
                 /\ pc' = Upd(pc, t, IF r.raised THEN "ec_after" ELSE "ec_sleep")
                 /\ raised' = Upd(raised, t, r.raised)
                 /\ running' = (IF r.raised THEN t ELSE 0)
                 /\ ecCycle' = Upd(ecCycle, t, TRUE)
                 /\ ecLockAtt' = Upd(ecLockAtt, t, -1)
                 /\ ecLockAlive' = Upd(ecLockAlive, t, FALSE)
                 /\ UNCHANGED <<ecAttBefore, ecStartRaised>>
  /\ UNCHANGED <<reconnect_attempts, lockVars, callVars, ecRet, exc, outcome,
                 readVars, cycHist, exHist>>

\* ---- start() ------------------------------------------------------------
\* Lines 79-137: allocate, configure, fork, mark alive; then sleep(0.5).
StBody(t) ==
  /\ UNCHANGED harnessVars
  /\ running = t /\ pc[t] = "st_body"
  /\ \E f \in StartFailPoints(W) :
       LET b == StartBody(W, f) IN
         /\ SetW(b.w)
         /\ pc' = Upd(pc, t, IF b.raised THEN "st_except" ELSE "st_sleep")
         /\ running' = (IF b.raised THEN t ELSE 0)
  /\ UNCHANGED <<reconnect_attempts, lockVars, callVars, ecRet, raised, exc,
                 outcome, readVars, stopRaised, ecHist, cycHist, exHist>>

\* A read of the primary handle by task t, noted for the write-integrity
\* property of execute_command.
NoteRead(t) ==
  /\ readAfterShort' = Upd(readAfterShort, t, readAfterShort[t] \/ shortAt[t] >= 0)
  /\ readSameAttempt' =
       Upd(readSameAttempt, t, readSameAttempt[t] \/ (shortAt[t] >= 0 /\ shortAt[t] = attempt[t]))

\* _verify_shell, lines 150-155: the guard and the probe write.  A false
\* result makes start() raise RuntimeError inside its try (line 139).
StVerify(t) ==
  /\ UNCHANGED harnessVars
  /\ running = 0 /\ pc[t] = "st_sleep"
  /\ running' = t
  /\ IF master_fd = None \/ ~process_alive
       THEN pc' = Upd(pc, t, "st_except")
       ELSE \E wr \in {"ok", "OSError"} :
              pc' = Upd(pc, t, IF wr = "ok" THEN "st_vloop" ELSE "st_except")
  /\ UNCHANGED <<sessVars, reconnect_attempts, lockVars, callVars, ecRet, raised,
                 exc, outcome, readVars, stopRaised, ecHist, cycHist, exHist>>

\* _verify_shell, lines 159-166: one turn of the polling loop.  "found" and
\* "other" are reads with and without the probe text, "eagain" the OSError
\* of an empty non-blocking read, "undecodable" a read whose decode raises,
\* "elapsed" the 5-second limit.  With the handle gone os.read raises
\* TypeError before reading; line 167 turns any exception into False.
VerifyReads(w) ==
  IF w.master_fd = None THEN {"typeerror"}
  ELSE {"found", "other", "eagain", "undecodable", "elapsed"}

StVerifyLoop(t) ==
  /\ UNCHANGED harnessVars
  /\ Sched(t) /\ pc[t] = "st_vloop"
  /\ \E r \in VerifyReads(W) :
       /\ pc' = Upd(pc, t, CASE r = "found" -> "st_clear"
                             [] r \in {"other", "eagain"} -> "st_vloop"
                             [] OTHER -> "st_except")
       /\ running' = (IF r = "eagain" THEN 0 ELSE t)
       /\ IF r \in {"found", "other", "eagain", "undecodable"} THEN NoteRead(t)
          ELSE UNCHANGED <<readAfterShort, readSameAttempt>>
  /\ UNCHANGED <<sessVars, reconnect_attempts, lockVars, callVars, ecRet, raised,
                 exc, outcome, readVars, stopRaised, ecHist, cycHist,
                 ecCalls, cmdWrites, exc0, exIncs, shortAt, ioHist>>

\* _clear_initial_output, lines 305-306: the guard.
ClearSkips(w) == w.master_fd = None \/ ~w.process_alive

\* _clear_initial_output, lines 310-318: one turn of the draining loop:
\* a read with data, the OSError of an empty non-blocking read (sleep 0.1),
\* an empty read (break) or the 1-second limit.  With the handle gone
\* os.read raises TypeError, which line 317 absorbs.
ClearReads(w) ==
  IF w.master_fd = None THEN {"typeerror"} ELSE {"data", "eagain", "empty", "elapsed"}

\* start() drains before returning (line 140), execute_command before
\* sending (line 250).
AfterClear(t) == IF pc[t] \in {"st_clear", "st_cloop"} THEN "st_ret" ELSE "ex_send"

ClearEnter(t) ==
  /\ UNCHANGED harnessVars
  /\ running = t /\ pc[t] \in {"st_clear", "ex_clear"}
  /\ pc' = Upd(pc, t, IF ClearSkips(W) THEN AfterClear(t)
                      ELSE IF pc[t] = "st_clear" THEN "st_cloop" ELSE "ex_cloop")
  /\ UNCHANGED <<sessVars, reconnect_attempts, lockVars, running, callVars, ecRet,
                 raised, exc, outcome, readVars, stopRaised, ecHist, cycHist, exHist>>

ClearLoop(t) ==
  /\ UNCHANGED harnessVars
  /\ Sched(t) /\ pc[t] \in {"st_cloop", "ex_cloop"}
  /\ \E r \in ClearReads(W) :
       /\ pc' = Upd(pc, t, IF r \in {"data", "eagain"} THEN pc[t] ELSE AfterClear(t))
       /\ running' = (IF r = "eagain" THEN 0 ELSE t)
       /\ IF r \in {"data", "eagain", "empty"} THEN NoteRead(t)
          ELSE UNCHANGED <<readAfterShort, readSameAttempt>>
  /\ UNCHANGED <<sessVars, reconnect_attempts, lockVars, callVars, ecRet, raised,
                 exc, outcome, readVars, stopRaised, ecHist, cycHist,
                 ecCalls, cmdWrites, exc0, exIncs, shortAt, ioHist>>

\* start() called by the task itself returns or raises to it.
StartReturn(t) ==
  /\ UNCHANGED harnessVars
  /\ running = t /\ pc[t] = "st_ret" /\ op[t] = "start"
  /\ pc' = Upd(pc, t, "start_done")
  /\ UNCHANGED <<sessVars, reconnect_attempts, lockVars, running, callVars, ecRet,
                 raised, exc, outcome, readVars, stopRaised, ecHist, cycHist, exHist>>

\* ---- _ensure_connection() -----------------------------------------------
\* os.kill(pid, 0), line 47: answers like any signal to that pid.
ProbeOutcomes(w) == KillOutcomes(w)

\* Lines 45-51: the liveness probe.
EcProbe(t) ==
  /\ UNCHANGED harnessVars
  /\ running = t /\ pc[t] = "ec"
  /\ IF process_alive /\ shell_pid # None
       THEN \E r \in ProbeOutcomes(W) :
              IF r = "ok"
                THEN /\ ecRet' = Upd(ecRet, t, TRUE) /\ pc' = Upd(pc, t, "ec_ret")
                     /\ UNCHANGED process_alive
                ELSE /\ process_alive' = FALSE /\ pc' = Upd(pc, t, "ec_lock")
                     /\ UNCHANGED ecRet
       ELSE /\ pc' = Upd(pc, t, "ec_lock") /\ UNCHANGED <<process_alive, ecRet>>
  /\ UNCHANGED <<master_fd, slave_fd, shell_pid, child, openFds, reconnect_attempts,
                 lockVars, running, callVars, raised, exc, outcome, readVars,
                 stopRaised, ecHist, cycHist, exHist>>

\* Line 53, asyncio.Lock.acquire: taken at once when the lock is free and
\* nobody waits; otherwise the task queues and suspends.
EcLock(t) ==
  /\ UNCHANGED harnessVars
  /\ running = t /\ pc[t] = "ec_lock"
  /\ IF lock_holder = 0 /\ lock_waiters = <<>>
       THEN /\ lock_holder' = t /\ UNCHANGED lock_waiters
            /\ pc' = Upd(pc, t, "ec_body") /\ running' = t
            /\ ecLockAtt' = Upd(ecLockAtt, t, reconnect_attempts)
            /\ ecLockAlive' = Upd(ecLockAlive, t, process_alive)
       ELSE /\ lock_waiters' = Append(lock_waiters, t) /\ UNCHANGED lock_holder
            /\ pc' = Upd(pc, t, "ec_wait") /\ running' = 0
            /\ UNCHANGED <<ecLockAtt, ecLockAlive>>
  /\ UNCHANGED <<sessVars, reconnect_attempts, callVars, ecRet, raised, exc,
                 outcome, readVars, stopRaised, ecCycle, ecAttBefore, ecStartRaised,
                 cycHist, exHist>>

\* asyncio.Lock.release wakes the first waiter, which then owns the lock.
EcWake(t) ==
  /\ UNCHANGED harnessVars
  /\ running = 0 /\ pc[t] = "ec_wait"
  /\ lock_holder = 0 /\ lock_waiters # <<>> /\ Head(lock_waiters) = t
  /\ lock_holder' = t /\ lock_waiters' = Tail(lock_waiters)
  /\ pc' = Upd(pc, t, "ec_body") /\ running' = t
  /\ ecLockAtt' = Upd(ecLockAtt, t, reconnect_attempts)
  /\ ecLockAlive' = Upd(ecLockAlive, t, process_alive)
  /\ UNCHANGED <<sessVars, reconnect_attempts, callVars, ecRet, raised, exc,
                 outcome, readVars, stopRaised, ecCycle, ecAttBefore, ecStartRaised,
                 cycHist, exHist>>

BudgetExhausted_OffByOne(n) == n > MAX_RECONNECT_ATTEMPTS
\* line 54
BudgetExhausted(n) == n >= MAX_RECONNECT_ATTEMPTS

\* Lines 54-60: the budget check and the increment, under the lock.
EcBody(t) ==
  /\ UNCHANGED harnessVars
  /\ running = t /\ pc[t] = "ec_body"
  /\ IF BudgetExhausted(reconnect_attempts)
       THEN /\ ecRet' = Upd(ecRet, t, FALSE) /\ pc' = Upd(pc, t, "ec_ret")
            /\ lock_holder' = 0
            /\ budgetHit' = TRUE
            /\ UNCHANGED <<reconnect_attempts, exIncs, ecAttBefore>>
       ELSE /\ reconnect_attempts' = reconnect_attempts + 1
            /\ ecAttBefore' = Upd(ecAttBefore, t, reconnect_attempts)
            /\ pc' = Upd(pc, t, "ec_stop")
            /\ exIncs' = Upd(exIncs, t, IF op[t] = "execute" THEN exIncs[t] + 1 ELSE 0)
            /\ UNCHANGED <<ecRet, lock_holder, budgetHit>>
  /\ UNCHANGED <<sessVars, lock_waiters, running, callVars, raised, exc, outcome,
                 readVars, stopRaised, ecLockAtt, ecLockAlive, ecCycle, ecStartRaised,
                 consecFails, ecCalls, cmdWrites,
                 exc0, shortAt, readAfterShort, readSameAttempt, ioHist>>

\* Line 62 is over: line 63 calls start().
EcSlept(t) ==
  /\ UNCHANGED harnessVars
  /\ running = 0 /\ pc[t] = "ec_sleep"
  /\ pc' = Upd(pc, t, "start") /\ running' = t
  /\ UNCHANGED <<sessVars, reconnect_attempts, lockVars, callVars, ecRet, raised,
                 exc, outcome, readVars, stopRaised, ecHist, cycHist, exHist>>

\* Lines 64-71: start() (or stop()) has returned or raised inside the try;
\* the lock is released on the way out.
EcAfterStart(t) ==
  /\ UNCHANGED harnessVars
  /\ running = t /\ pc[t] \in {"st_ret", "ec_after"} /\ op[t] # "start"
  /\ LET ok == ~raised[t] /\ process_alive IN
       /\ ecRet' = Upd(ecRet, t, ok)
       /\ reconnect_attempts' = (IF ok THEN 0 ELSE reconnect_attempts)
       /\ consecFails' = (IF ok THEN 0 ELSE consecFails + 1)
       /\ budgetHit' = (IF ok THEN FALSE ELSE budgetHit)
  /\ ecStartRaised' = Upd(ecStartRaised, t, pc[t] = "st_ret" /\ raised[t])
  /\ raised' = Upd(raised, t, FALSE)
  /\ lock_holder' = 0
  /\ pc' = Upd(pc, t, "ec_ret")
  /\ UNCHANGED <<sessVars, lock_waiters, running, callVars, exc, outcome, readVars,
                 stopRaised, ecLockAtt, ecLockAlive, ecCycle, ecAttBefore, exHist>>

\* _ensure_connection called by the task itself returns to it.
EnsureReturn(t) ==
  /\ UNCHANGED harnessVars
  /\ running = t /\ pc[t] = "ec_ret" /\ op[t] = "ensure"
  /\ pc' = Upd(pc, t, "ec_done")
  /\ UNCHANGED <<sessVars, reconnect_attempts, lockVars, running, callVars, ecRet,
                 raised, exc, outcome, readVars, stopRaised, ecHist, cycHist, exHist>>

\* ---- execute_command() ---------------------------------------------------
CallExecute(t) ==
  /\ UNCHANGED harnessVars
  /\ t \in Executors /\ running = 0 /\ pc[t] = "idle"
  /\ op' = Upd(op, t, "execute") /\ attempt' = Upd(attempt, t, 0)
  /\ pc' = Upd(pc, t, "ec") /\ running' = t
  /\ ecCalls' = Upd(ecCalls, t, 1)
  /\ UNCHANGED <<sessVars, reconnect_attempts, lockVars, ecRet, raised, exc, outcome,
                 readVars, stopRaised, ecHist, cycHist, cmdWrites, exc0, exIncs,
                 shortAt, readAfterShort, readSameAttempt, ioHist>>

\* Lines 244-245: the result of _ensure_connection inside an attempt.
ExAfterEc(t) ==
  /\ UNCHANGED harnessVars
  /\ running = t /\ pc[t] = "ec_ret" /\ op[t] = "execute"
  /\ IF ecRet[t]
       THEN pc' = Upd(pc, t, "ex_clear") /\ UNCHANGED exc
       ELSE pc' = Upd(pc, t, "ex_except") /\ exc' = Upd(exc, t, "Conn")
  /\ ecLockAtt' = Upd(ecLockAtt, t, -1) /\ ecLockAlive' = Upd(ecLockAlive, t, FALSE)
  /\ ecAttBefore' = Upd(ecAttBefore, t, -1)
  /\ ecStartRaised' = Upd(ecStartRaised, t, FALSE)
  /\ UNCHANGED <<sessVars, reconnect_attempts, lockVars, running, callVars, ecRet,
                 raised, outcome, readVars, stopRaised, ecCycle, cycHist, exHist>>

SendCheckFails_Ignored(written, len) == FALSE
\* line 278
SendCheckFails(written, len) == written # len

\* Lines 252-255 and _send_command_to_terminal: the command is used here
\* only, so its encoded length len is drawn here; os.write either raises
\* OSError or reports how many of the len bytes it wrote.
ExSend(t) ==
  /\ UNCHANGED harnessVars
  /\ running = t /\ pc[t] = "ex_send"
  /\ IF master_fd = None
       THEN /\ exc' = Upd(exc, t, "Runtime") /\ pc' = Upd(pc, t, "ex_except")
            /\ UNCHANGED <<cmdWrites, shortAt>>
       ELSE \/ /\ exc' = Upd(exc, t, "OSError") /\ pc' = Upd(pc, t, "ex_except")
               /\ UNCHANGED <<cmdWrites, shortAt>>
            \/ \E len \in 1 .. MaxCmdLen : \E written \in 0 .. len :
                 /\ cmdWrites' = Upd(cmdWrites, t, cmdWrites[t] + 1)
                 /\ shortAt' = Upd(shortAt, t, IF written < len THEN attempt[t]
                                                ELSE shortAt[t])
                 /\ IF SendCheckFails(written, len)
                      THEN /\ exc' = Upd(exc, t, "Runtime")
                           /\ pc' = Upd(pc, t, "ex_except")
                      ELSE /\ pc' = Upd(pc, t, "ex_read") /\ UNCHANGED exc
  /\ UNCHANGED <<sessVars, reconnect_attempts, lockVars, running, callVars, ecRet,
                 raised, outcome, readVars, stopRaised, ecHist, cycHist, ecCalls,
                 exc0, exIncs, readAfterShort, readSameAttempt, ioHist>>

\* ---- _read_terminal_output() ---------------------------------------------
\* Lines 173-174.
ReaderRefuses(w) == w.master_fd = None \/ ~w.process_alive

\* Lines 183-219, one turn of the loop.  The clock and the retry counter are
\* left to the environment here: timedOut is line 185's test, quiet line
\* 190's elapsed-time test, exhausted line 209's test.  rd is what os.read
\* does: "decodable" and "undecodable" are reads whose buffer does or does
\* not decode, "empty" is b'', the other two are the exceptions.
ReadResults == {"decodable", "undecodable", "empty", "BlockingIOError", "OSError"}

ReaderTurn(hasChunks, fdNone, timedOut, quiet, rd, exhausted) ==
  IF timedOut THEN (IF ~hasChunks THEN "raise_Timeout" ELSE "break")
  ELSE IF quiet /\ hasChunks THEN "break"
  ELSE IF fdNone THEN "raise_Runtime"
  ELSE CASE rd = "decodable" -> "data"
         [] rd = "undecodable" -> "partial"
         [] rd = "empty" -> (IF exhausted
                              THEN (IF ~hasChunks THEN "raise_Runtime" ELSE "break")
                              ELSE "sleep_empty")
         [] rd = "BlockingIOError" -> "sleep"
         [] OTHER -> "break_oserror"

ReaderTurns(w, hasChunks) ==
  { ReaderTurn(hasChunks, w.master_fd = None, to, q, rd, ex) :
      to \in BOOLEAN, q \in BOOLEAN, rd \in ReadResults, ex \in BOOLEAN }

\* How the reader's end reaches execute_command: the command's read feeds
\* line 256 (an exception goes to line 267); the pwd read is inside
\* _get_current_directory's try (lines 350-356), which absorbs everything.
ReaderEnds(t, how, text) ==
  IF phase[t] = "cmd"
    THEN IF how = "return"
           THEN /\ outNonEmpty' = Upd(outNonEmpty, t, text)
                /\ pc' = Upd(pc, t, "ex_pwd")
                /\ UNCHANGED <<exc, outcome, cwd>>
           ELSE /\ exc' = Upd(exc, t, how)
                /\ pc' = Upd(pc, t, "ex_except")
                /\ UNCHANGED <<outNonEmpty, outcome, cwd>>
    ELSE /\ \E cleaned \in (IF how = "return" /\ text THEN BOOLEAN ELSE {FALSE}) :
              cwd' = Upd(cwd, t, IF cleaned THEN "probe" ELSE "working_dir")
         /\ outcome' = Upd(outcome, t, "returned")
         /\ pc' = Upd(pc, t, "ex_done")
         /\ UNCHANGED <<exc, outNonEmpty>>

ReadEnter(t) ==
  /\ UNCHANGED harnessVars
  /\ running = t /\ pc[t] = "ex_read"
  /\ IF ReaderRefuses(W)
       THEN ReaderEnds(t, "Runtime", FALSE) /\ UNCHANGED <<chunks, buffered>>
       ELSE /\ chunks' = Upd(chunks, t, FALSE) /\ buffered' = Upd(buffered, t, FALSE)
            /\ pc' = Upd(pc, t, "ex_rloop")
            /\ UNCHANGED <<exc, outcome, outNonEmpty, cwd>>
  /\ UNCHANGED <<sessVars, reconnect_attempts, lockVars, running, callVars, ecRet,
                 raised, phase, stopRaised, ecHist, cycHist, exHist>>

ReadLoop(t) ==
  /\ UNCHANGED harnessVars
  /\ Sched(t) /\ pc[t] = "ex_rloop"
  /\ \E k \in ReaderTurns(W, chunks[t]) :
       /\ CASE k = "data" ->
                 /\ chunks' = Upd(chunks, t, TRUE) /\ buffered' = Upd(buffered, t, FALSE)
                 /\ UNCHANGED <<pc, exc, outcome, outNonEmpty, cwd>>
            [] k = "partial" ->
                 /\ buffered' = Upd(buffered, t, TRUE)
                 /\ UNCHANGED <<pc, chunks, exc, outcome, outNonEmpty, cwd>>
            [] k \in {"sleep", "sleep_empty"} ->
                 UNCHANGED <<pc, chunks, buffered, exc, outcome, outNonEmpty, cwd>>
            [] k \in {"break", "break_oserror"} ->
                 /\ ReaderEnds(t, "return", chunks[t] \/ buffered[t])
                 /\ UNCHANGED <<chunks, buffered>>
            [] k = "raise_Timeout" ->
                 ReaderEnds(t, "Timeout", FALSE) /\ UNCHANGED <<chunks, buffered>>
            [] OTHER ->
                 ReaderEnds(t, "Runtime", FALSE) /\ UNCHANGED <<chunks, buffered>>
       /\ running' = (IF k \in {"sleep", "sleep_empty"} THEN 0 ELSE t)
       /\ IF k \in {"data", "partial", "sleep", "sleep_empty", "break_oserror"}
            THEN NoteRead(t)
            ELSE UNCHANGED <<readAfterShort, readSameAttempt>>
       /\ readFailed' = Upd(readFailed, t, readFailed[t] \/ (k = "break_oserror" /\ phase[t] = "cmd"))
  /\ UNCHANGED <<sessVars, reconnect_attempts, lockVars, callVars, ecRet, raised,
                 phase, stopRaised, ecHist, cycHist, ecCalls, cmdWrites, exc0, exIncs, shortAt,
                 pwdWriteFailed>>

\* _get_current_directory, lines 347-349 and 356: the pwd write is outside
\* the try, so its OSError leaves through execute_command's handler.
ExPwd(t) ==
  /\ UNCHANGED harnessVars
  /\ running = t /\ pc[t] = "ex_pwd"
  /\ IF master_fd # None
       THEN \/ /\ phase' = Upd(phase, t, "pwd") /\ pc' = Upd(pc, t, "ex_read")
               /\ UNCHANGED <<exc, outcome, cwd, pwdWriteFailed>>
            \/ /\ exc' = Upd(exc, t, "OSError") /\ pc' = Upd(pc, t, "ex_except")
               /\ pwdWriteFailed' = Upd(pwdWriteFailed, t, TRUE)
               /\ UNCHANGED <<phase, outcome, cwd>>
       ELSE /\ cwd' = Upd(cwd, t, "working_dir")
            /\ outcome' = Upd(outcome, t, "returned")
            /\ pc' = Upd(pc, t, "ex_done")
            /\ UNCHANGED <<phase, exc, pwdWriteFailed>>
  /\ UNCHANGED <<sessVars, reconnect_attempts, lockVars, running, callVars, ecRet,
                 raised, chunks, buffered, outNonEmpty, stopRaised, ecHist, cycHist,
                 ecCalls, cmdWrites, exc0, exIncs, shortAt, readAfterShort,
                 readSameAttempt, readFailed>>

\* Line 267, except (OSError, RuntimeError): TimeoutError is a subclass of
\* OSError, and the connection failure of line 245 is a RuntimeError.
Caught(e) == e \in {"OSError", "Timeout", "Runtime", "Conn"}

RetryOn_Always(a) == a <= 1
\* line 269
RetryOn(a) == a = 0

\* Lines 267-272: the handler of an attempt.
ExExcept(t) ==
  /\ UNCHANGED harnessVars
  /\ running = t /\ pc[t] = "ex_except"
  /\ IF Caught(exc[t]) /\ RetryOn(attempt[t])
       THEN /\ pc' = Upd(pc, t, "ex_retry") /\ running' = 0
            /\ exc0' = Upd(exc0, t, IF attempt[t] = 0 THEN exc[t] ELSE exc0[t])
            /\ UNCHANGED outcome
       ELSE /\ pc' = Upd(pc, t, "ex_done") /\ running' = t
            /\ outcome' = Upd(outcome, t, "raised")
            /\ UNCHANGED exc0
  /\ UNCHANGED <<sessVars, reconnect_attempts, lockVars, callVars, ecRet, raised,
                 exc, readVars, stopRaised, ecHist, cycHist, ecCalls, cmdWrites,
                 exIncs, shortAt, readAfterShort, readSameAttempt, ioHist>>

\* Lines 270-271 and 242: after sleep(1), `continue` takes the next value of
\* range(2); when there is none the loop ends and the function returns None.
ExRetry(t) ==
  /\ UNCHANGED harnessVars
  /\ running = 0 /\ pc[t] = "ex_retry"
  /\ running' = t
  /\ IF attempt[t] + 1 < RangeAttempts
       THEN /\ attempt' = Upd(attempt, t, attempt[t] + 1)
            /\ pc' = Upd(pc, t, "ec")
            /\ ecCalls' = Upd(ecCalls, t, ecCalls[t] + 1)
            /\ exc' = Upd(exc, t, "none")
            /\ phase' = Upd(phase, t, "cmd")
            /\ ecLockAtt' = Upd(ecLockAtt, t, -1)
            /\ ecLockAlive' = Upd(ecLockAlive, t, FALSE)
            /\ ecCycle' = Upd(ecCycle, t, FALSE)
            /\ UNCHANGED <<ecAttBefore, ecStartRaised>>
            /\ pwdWriteFailed' = Upd(pwdWriteFailed, t, FALSE)
            /\ readFailed' = Upd(readFailed, t, FALSE)
            /\ UNCHANGED outcome
       ELSE /\ outcome' = Upd(outcome, t, "none_returned")
            /\ pc' = Upd(pc, t, "ex_done")
            /\ UNCHANGED <<attempt, ecCalls, exc, phase, ecHist, ioHist>>
  /\ UNCHANGED <<sessVars, reconnect_attempts, lockVars, op, ecRet, raised,
                 chunks, buffered, outNonEmpty, cwd, stopRaised, cycHist, cmdWrites,
                 exc0, exIncs, shortAt, readAfterShort, readSameAttempt>>

\* The child exits on its own (the shell ends, or is killed from outside).
\* The single-threaded program can only notice it at its next probe or
\* kill, so the model lets it happen between the coroutines' runs.
ChildDies ==
  /\ UNCHANGED harnessVars
  /\ running = 0
  /\ \E c \in Pids : child[c] = "live" /\ child' = [child EXCEPT ![c] = "dead"]
  /\ UNCHANGED <<master_fd, slave_fd, shell_pid, process_alive, openFds,
                 reconnect_attempts, lockVars, running, pc, callVars, ecRet,
                 raised, exc, outcome, readVars, stopRaised, ecHist, cycHist, exHist>>

Next ==
  \/ \E t \in Tasks : CallStart(t)
  \/ \E t \in Tasks : CallStop(t)
  \/ \E t \in Tasks : CallEnsure(t)
  \/ \E t \in Tasks : Return(t)
  \/ \E t \in Tasks : StopStep(t)
  \/ \E t \in Tasks : StBody(t)
  \/ \E t \in Tasks : StVerify(t)
  \/ \E t \in Tasks : StVerifyLoop(t)
  \/ \E t \in Tasks : ClearEnter(t)
  \/ \E t \in Tasks : ClearLoop(t)
  \/ \E t \in Tasks : StartReturn(t)
  \/ \E t \in Tasks : EcProbe(t)
  \/ \E t \in Tasks : EcLock(t)
  \/ \E t \in Tasks : EcWake(t)
  \/ \E t \in Tasks : EcBody(t)
  \/ \E t \in Tasks : EcSlept(t)
  \/ \E t \in Tasks : EcAfterStart(t)
  \/ \E t \in Tasks : EnsureReturn(t)
  \/ \E t \in Tasks : CallExecute(t)
  \/ \E t \in Tasks : ExAfterEc(t)
  \/ \E t \in Tasks : ExSend(t)
  \/ \E t \in Tasks : ReadEnter(t)
  \/ \E t \in Tasks : ReadLoop(t)
  \/ \E t \in Tasks : ExPwd(t)
  \/ \E t \in Tasks : ExExcept(t)
  \/ \E t \in Tasks : ExRetry(t)
  \/ ChildDies

Spec == Init /\ [][Next]_vars

\* ========================================================================
\* _clean_output (lines 358-380), a pure function of command and output.
\* Text is a sequence of code points.
\* ========================================================================
MaxOutputLen == 4    \* raw outputs of up to this many characters are enumerated

ESC == 27
LF == 10
CR == 13

\* self.prompt_markers, line 35: "$ ", "# ", "> "
prompt_markers == << <<36, 32>>, <<35, 32>>, <<62, 32>> >>

\* [@-Z\\-_], the character after ESC in the first alternative of line 364
IsEscC1(c) == c \in (64 .. 90) \cup (92 .. 95)
\* [@-~], the character that ends the second alternative
IsEscFinal(c) == c \in 64 .. 126

\* `.*?[ -/]*[@-~]` tried at index i: the index of the first [@-~] at or
\* after i that no "\n" precedes (`.` matches anything but "\n"), 0 if none.
RECURSIVE FirstFinal(_, _)
FirstFinal(s, i) ==
  IF i > Len(s) THEN 0
  ELSE IF IsEscFinal(s[i]) THEN i
  ELSE IF s[i] = LF THEN 0
  ELSE FirstFinal(s, i + 1)

\* The regular expression of line 364 tried at an ESC at index i: the index
\* of the last character of the match, 0 when it does not match.  `\[?`
\* takes a "[" when one follows and gives it back (as the final character)
\* when nothing ends the sequence after it.
EscMatchEnd(s, i) ==
  IF i + 1 <= Len(s) /\ IsEscC1(s[i + 1]) THEN i + 1
  ELSE IF i + 1 <= Len(s) /\ s[i + 1] = 91
    THEN LET q == FirstFinal(s, i + 2) IN IF q # 0 THEN q ELSE i + 1
    ELSE FirstFinal(s, i + 1)

RECURSIVE SubFrom(_, _)
SubFrom(s, i) ==
  IF i > Len(s) THEN <<>>
  ELSE IF s[i] = ESC /\ EscMatchEnd(s, i) # 0 THEN SubFrom(s, EscMatchEnd(s, i) + 1)
  ELSE <<s[i]>> \o SubFrom(s, i + 1)

\* ansi_escape.sub('', output), line 365
ansi_escape_sub(s) == SubFrom(s, 1)

\* str.splitlines, line 367: the line boundaries of Python, "\r\n" being
\* one; no empty last line after a final boundary.
IsLineBreak(c) == c \in {10, 11, 12, 13, 28, 29, 30, 133, 8232, 8233}

RECURSIVE SplitFrom(_, _, _)
SplitFrom(s, i, cur) ==
  IF i > Len(s) THEN (IF cur = <<>> THEN <<>> ELSE <<cur>>)
  ELSE IF IsLineBreak(s[i])
    THEN <<cur>> \o SplitFrom(s, IF s[i] = CR /\ i < Len(s) /\ s[i + 1] = LF
                                   THEN i + 2 ELSE i + 1, <<>>)
    ELSE SplitFrom(s, i + 1, Append(cur, s[i]))

splitlines(s) == SplitFrom(s, 1, <<>>)

\* `sub in s` for strings (lines 370 and 377)
Contains(sub, s) ==
  \E k \in 0 .. (Len(s) - Len(sub)) : SubSeq(s, k + 1, k + Len(sub)) = sub

\* str.strip, line 376: whitespace of Python within the Latin-1 range
IsSpace(c) == c \in {9, 10, 11, 12, 13, 28, 29, 30, 31, 32, 133, 160}

RECURSIVE lstrip(_)
lstrip(s) == IF s # <<>> /\ IsSpace(Head(s)) THEN lstrip(Tail(s)) ELSE s

RECURSIVE rstrip(_)
rstrip(s) ==
  IF s # <<>> /\ IsSpace(s[Len(s)]) THEN rstrip(SubSeq(s, 1, Len(s) - 1)) ELSE s

strip_None(s) == s
strip(s) == rstrip(lstrip(s))

\* line 377: the test that keeps a stripped line
KeepsLine(line) ==
  line # <<>> /\ \A m \in 1 .. Len(prompt_markers) : ~Contains(prompt_markers[m], line)

\* lines 374-378
RECURSIVE FilterLines(_)
FilterLines(lines) ==
  IF lines = <<>> THEN <<>>
  ELSE LET line == strip(Head(lines))
       IN (IF KeepsLine(line) THEN <<line>> ELSE <<>>) \o FilterLines(Tail(lines))

\* '\n'.join(cleaned), line 380
RECURSIVE join(_)
join(lines) ==
  IF lines = <<>> THEN <<>>
  ELSE IF Len(lines) = 1 THEN lines[1]
  ELSE lines[1] \o <<LF>> \o join(Tail(lines))

\* lines 370-371
DropEcho(command, lines) ==
  IF lines # <<>> /\ Contains(command, lines[1]) THEN Tail(lines) ELSE lines

clean_output(command, output) ==
  IF output = <<>> THEN <<>>
  ELSE join(FilterLines(DropEcho(command, splitlines(ansi_escape_sub(output)))))

\* The inputs: every text of up to MaxOutputLen characters over a, space,
\* "$", "\n", "\r", ESC, "[", and the example of the documentation; the
\* commands "", "a", "$" and "cmd".
CleanAlphabet == {97, 32, 36, 10, 13, 27, 91}
ExampleCommand == <<99, 109, 100>>
ExampleOutput ==
  <<99, 109, 100, 10, 36, 32, 99, 109, 100, 10, 104, 101, 108, 108, 111, 10, 36, 32>>
ExampleCleaned == <<104, 101, 108, 108, 111>>

CleanOutputs ==
  UNION { [1 .. n -> CleanAlphabet] : n \in 0 .. MaxOutputLen } \cup {ExampleOutput}
CleanCommands == {<<>>, <<97>>, <<36>>, ExampleCommand}

CleanInit ==
  /\ SessionInit /\ ReaderIdle
  /\ clCommand \in CleanCommands /\ clOutput \in CleanOutputs
  /\ clResult = <<>> /\ clPc = "call"

CleanCall ==
  /\ clPc = "call"
  /\ clResult' = clean_output(clCommand, clOutput)
  /\ clPc' = "done"
  /\ UNCHANGED <<tmVars, rdrVars, clCommand, clOutput>>

CleanNext == CleanCall

CleanSpec == CleanInit /\ [][CleanNext]_vars

\* ========================================================================
\* _read_terminal_output (lines 171-225) against a clock and an output
\* source.  Bytes and characters are numbers; time is counted in periods of
\* READ_TIMEOUT (0.1 s); the clock advances in the sleeps only, by their
\* nominal duration.
\* ========================================================================

\* ---- bytes.decode('utf-8') ------------------------------------------------
\* The length of the UTF-8 form a first byte announces; 0 for a byte that
\* cannot begin one.
Utf8Need(b) ==
  IF b < 128 THEN 1
  ELSE IF b \in 194 .. 223 THEN 2
  ELSE IF b \in 224 .. 239 THEN 3
  ELSE IF b \in 240 .. 244 THEN 4
  ELSE 0

\* The values the byte at place k (2..4) of a form begun by b may have.
Utf8Cont(b, k) ==
  IF k > 2 THEN 128 .. 191
  ELSE IF b = 224 THEN 160 .. 191
  ELSE IF b = 237 THEN 128 .. 159
  ELSE IF b = 240 THEN 144 .. 191
  ELSE IF b = 244 THEN 128 .. 143
  ELSE 128 .. 191

\* How many bytes of s from index i on belong to the form begun at i, given
\* that k of them have been accepted.
RECURSIVE Utf8Run(_, _, _)
Utf8Run(s, i, k) ==
  IF k >= Utf8Need(s[i]) \/ i + k > Len(s) THEN k
  ELSE IF s[i + k] \in Utf8Cont(s[i], k + 1) THEN Utf8Run(s, i, k + 1)
  ELSE k

\* The character of the complete form of n bytes at index i.
Utf8Char(s, i, n) ==
  CASE n = 1 -> s[i]
    [] n = 2 -> (s[i] - 192) * 64 + (s[i + 1] - 128)
    [] n = 3 -> (s[i] - 224) * 4096 + (s[i + 1] - 128) * 64 + (s[i + 2] - 128)
    [] OTHER -> (s[i] - 240) * 262144 + (s[i + 1] - 128) * 4096
                  + (s[i + 2] - 128) * 64 + (s[i + 3] - 128)

REPLACEMENT == 65533

\* Decoding from index i.  strict: the first malformed or unfinished form
\* fails the whole decode (UnicodeDecodeError).  Otherwise (errors='replace')
\* each such form yields U+FFFD and decoding goes on after it.
RECURSIVE Utf8From(_, _, _)
Utf8From(s, i, strict) ==
  IF i > Len(s) THEN [ok |-> TRUE, text |-> <<>>]
  ELSE LET n == Utf8Need(s[i])
           k == IF n = 0 THEN 1 ELSE Utf8Run(s, i, 1)
           rest == Utf8From(s, i + k, strict)
       IN  IF n # 0 /\ k = n
             THEN [ok |-> rest.ok, text |-> <<Utf8Char(s, i, n)>> \o rest.text]
           ELSE IF strict THEN [ok |-> FALSE, text |-> <<>>]
           ELSE [ok |-> rest.ok, text |-> <<REPLACEMENT>> \o rest.text]

\* buffer.decode('utf-8'), line 202
decode(bytes) == Utf8From(bytes, 1, TRUE)
\* buffer.decode('utf-8', errors='replace'), line 223
decode_replace(bytes) == Utf8From(bytes, 1, FALSE).text

\* ---- time and the output source -----------------------------------------
TicksPerSecond == 10      \* one tick is READ_TIMEOUT = 0.1 s
READ_TIMEOUT == 1         \* line 40, in ticks
MAX_READ_RETRIES == 50    \* line 41
QUIET_SECONDS == 2        \* line 190
DRAIN_SECONDS == 1        \* line 310
DRAIN_PAUSE == 1          \* line 316: sleep(0.1), in ticks
RETRY_DELAY == 1          \* line 270: sleep(1), in seconds

MaxStreamLen == 3         \* bytes a source emits in all

\* "A", and the two bytes of the UTF-8 form of U+00E9
ByteAlphabet == {65, 195, 169}
\* seconds between a chunk and the one before it (the first: after the
\* command was written)
Gaps == {0, 3}
\* the timeout argument, in seconds
Timeouts == {2, 10}
\* What os.read does when no chunk is due: raise BlockingIOError, return b''
\* or, once the source has emitted everything, raise OSError (EIO: the
\* shell side of the pty is closed).
IdleKinds == {"BlockingIOError", "empty", "OSError"}

ChunksUpTo(n) ==
  [gap : Gaps, bytes : UNION { [1 .. m -> ByteAlphabet] : m \in 1 .. n }]

\* Every way to emit up to n bytes: a sequence of chunks, each the result
\* of one os.read once it is due.
RECURSIVE SourcesOf(_)
SourcesOf(n) ==
  {<<>>} \cup
  UNION { { <<c>> \o rest : rest \in SourcesOf(n - Len(c.bytes)) } : c \in ChunksUpTo(n) }

\* "A" at once, "B" three seconds later
ExampleSource == << [gap |-> 0, bytes |-> <<65>>], [gap |-> 3, bytes |-> <<66>>] >>

Sources == SourcesOf(MaxStreamLen) \cup {ExampleSource}

\* The tick at which chunk k of the source becomes readable.
RECURSIVE Arrival(_, _)
Arrival(src, k) ==
  IF k = 0 THEN 0 ELSE Arrival(src, k - 1) + src[k].gap * TicksPerSecond

\* "pwd\n", line 348; what a shell in the directory "/d" prints for it; and
\* str(self.working_dir), "/w"
PwdCommand == <<112, 119, 100, 10>>
PwdReply == <<47, 100, 10>>
WorkingDir == <<47, 119>>

\* A chunk of the command's output is ready to be read.
ChunkDue == rxNext < Len(rxSource) /\ Arrival(rxSource, rxNext + 1) <= rxNow

\* The shell runs the probe once the command has emitted all its output, so
\* its answer, if it gives one, follows the last chunk of that output.
ReplyDue ==
  /\ rxPhase = "pwd" /\ rxReplies /\ ~rxReplied
  /\ rxNext = Len(rxSource) /\ rxIdle # "OSError"

\* os.read(self.master_fd, 4096), lines 198 and 312
os_read ==
  IF ChunkDue \/ ReplyDue THEN "data"
  ELSE IF rxIdle = "OSError" /\ rxNext < Len(rxSource) THEN "BlockingIOError"
  ELSE rxIdle

\* the bytes of a read with data
ReadBytes == IF ChunkDue THEN rxSource[rxNext + 1].bytes ELSE PwdReply

\* line 256: the timeout of execute_command; line 351: 5 seconds
PWD_TIMEOUT == 5
ReaderTimeout == IF rxPhase = "pwd" THEN PWD_TIMEOUT ELSE rxTimeout

\* ---- the reader loop ------------------------------------------------------
Extend_Overwrite(buf, chunk) == chunk
\* buffer.extend(chunk), line 199
Extend(buf, chunk) == buf \o chunk

Quiet_LongWindow(current_time, last, list) ==
  current_time - last > 2 * QUIET_SECONDS * TicksPerSecond /\ list # <<>>
\* line 190
Quiet(current_time, last, list) ==
  current_time - last > QUIET_SECONDS * TicksPerSecond /\ list # <<>>

\* lines 222-223
Flush(list, buf) ==
  IF buf # <<>> THEN Append(list, decode_replace(buf)) ELSE list

\* ''.join(output_chunks), line 225
RECURSIVE join_chunks(_)
join_chunks(list) ==
  IF list = <<>> THEN <<>> ELSE Head(list) \o join_chunks(Tail(list))

\* One turn of the while loop, lines 182-219: what it does to the locals
\* and how it ends (raise, break, again without a pause, or sleep).
Turn ==
  LET current_time == rxNow
      keep == [kind |-> "again", exc |-> "none", output_chunks |-> output_chunks,
               buffer |-> buffer, last_read_time |-> last_read_time,
               retry_count |-> retry_count, consumed |-> 0, idle |-> FALSE]
  IN  IF current_time - start_time > ReaderTimeout * TicksPerSecond
        THEN IF output_chunks = <<>>
               THEN [keep EXCEPT !.kind = "raise", !.exc = "Timeout"]
               ELSE [keep EXCEPT !.kind = "break"]
      ELSE IF Quiet(current_time, last_read_time, output_chunks)
        THEN [keep EXCEPT !.kind = "break"]
      ELSE CASE os_read = "data" ->
                  LET buf == Extend(buffer, ReadBytes)
                      d == decode(buf)
                  IN  IF d.ok
                        THEN [keep EXCEPT !.output_chunks = Append(@, d.text),
                                          !.buffer = <<>>,
                                          !.last_read_time = current_time,
                                          !.retry_count = 0, !.consumed = 1]
                        ELSE [keep EXCEPT !.buffer = buf, !.consumed = 1]
             [] os_read = "empty" ->
                  LET n == retry_count + 1
                  IN  IF n >= MAX_READ_RETRIES
                        THEN IF output_chunks = <<>>
                               THEN [keep EXCEPT !.kind = "raise", !.exc = "Runtime",
                                                 !.retry_count = n, !.idle = TRUE]
                               ELSE [keep EXCEPT !.kind = "break", !.retry_count = n,
                                                 !.idle = TRUE]
                        ELSE [keep EXCEPT !.kind = "sleep", !.retry_count = n,
                                          !.idle = TRUE]
             [] os_read = "BlockingIOError" ->
                  [keep EXCEPT !.kind = "sleep", !.idle = TRUE]
             [] OTHER -> [keep EXCEPT !.kind = "break"]

\* Lines 173-180: the session is alive, so the guard passes and the locals
\* are set up.
RxEnter ==
  /\ rxPc = "enter"
  /\ output_chunks' = <<>> /\ buffer' = <<>>
  /\ start_time' = rxNow /\ last_read_time' = rxNow
  /\ retry_count' = 0
  /\ rxBytesRead' = <<>> /\ rxIdleRun' = 0
  /\ rxPc' = "loop"
  /\ UNCHANGED <<tmVars, cleanVars, pwdVars, rxNow, rxSource, rxNext, rxIdle, rxTimeout,
                 rxAttempt, rxExc, rxText, rxDrainStart>>

\* Lines 182-225: one turn of the loop and, after a break, the flush and
\* the return.
RxTurn ==
  /\ rxPc = "loop"
  /\ LET r == Turn
     IN  /\ output_chunks' = IF r.kind = "break" THEN Flush(r.output_chunks, r.buffer)
                             ELSE r.output_chunks
         /\ buffer' = r.buffer
         /\ last_read_time' = r.last_read_time
         /\ retry_count' = r.retry_count
         /\ rxNext' = IF ChunkDue THEN rxNext + r.consumed ELSE rxNext
         /\ rxReplied' = (rxReplied \/ (r.consumed = 1 /\ ~ChunkDue))
         /\ rxBytesRead' = IF r.consumed = 1 THEN rxBytesRead \o ReadBytes
                           ELSE rxBytesRead
         /\ rxIdleRun' = IF r.idle THEN rxIdleRun + 1
                         ELSE IF r.consumed = 1 THEN 0 ELSE rxIdleRun
         /\ rxExc' = IF r.kind = "raise" THEN r.exc ELSE rxExc
         /\ rxText' = IF r.kind = "break" THEN join_chunks(Flush(r.output_chunks, r.buffer))
                      ELSE rxText
         /\ rxPc' = CASE r.kind = "raise" ->
                             IF rxPhase = "pwd" THEN "pwd_failed" ELSE "handler"
                      [] r.kind = "break" -> "returned"
                      [] r.kind = "sleep" -> "sleep"
                      [] OTHER -> "loop"
  /\ UNCHANGED <<tmVars, cleanVars, rxNow, rxSource, rxIdle, rxTimeout, rxAttempt,
                 rxDrainStart, start_time, rxPhase, rxOutput, rxCwd, rxReplies>>

\* Lines 213 and 216: asyncio.sleep(self.READ_TIMEOUT) is over.
RxWake ==
  /\ rxPc = "sleep"
  /\ rxNow' = rxNow + READ_TIMEOUT
  /\ rxPc' = "loop"
  /\ UNCHANGED <<tmVars, cleanVars, pwdVars, rxSource, rxNext, rxIdle, rxTimeout, rxAttempt,
                 rxExc, rxText, rxDrainStart, output_chunks, start_time,
                 last_read_time, retry_count, buffer, rxBytesRead, rxIdleRun>>

\* Lines 267-272: the handler of the attempt whose reader raised.
RxHandler ==
  /\ rxPc = "handler"
  /\ rxPc' = IF Caught(rxExc) /\ RetryOn(rxAttempt) THEN "backoff" ELSE "raised"
  /\ UNCHANGED <<tmVars, cleanVars, pwdVars, rxNow, rxSource, rxNext, rxIdle, rxTimeout,
                 rxAttempt, rxExc, rxText, rxDrainStart, output_chunks, start_time,
                 last_read_time, retry_count, buffer, rxBytesRead, rxIdleRun>>

\* Lines 270-271 and 242-248: sleep(1) is over, the next attempt begins;
\* _ensure_connection finds the session alive and _clear_initial_output
\* starts.
RxRetry ==
  /\ rxPc = "backoff"
  /\ rxAttempt + 1 < RangeAttempts
  /\ rxNow' = rxNow + RETRY_DELAY * TicksPerSecond
  /\ rxDrainStart' = rxNow + RETRY_DELAY * TicksPerSecond
  /\ rxAttempt' = rxAttempt + 1
  /\ rxPc' = "drain"
  /\ UNCHANGED <<tmVars, cleanVars, pwdVars, rxSource, rxNext, rxIdle, rxTimeout, rxExc,
                 rxText, output_chunks, start_time, last_read_time, retry_count,
                 buffer, rxBytesRead, rxIdleRun>>

\* Lines 310-316, then 253-255: one turn of the draining loop; when it is
\* over the command is written again, whole, and the reader is called.
RxDrain ==
  /\ rxPc = "drain"
  /\ IF rxNow - rxDrainStart < DRAIN_SECONDS * TicksPerSecond
       THEN CASE os_read = "data" ->
                   /\ rxNext' = rxNext + 1
                   /\ UNCHANGED <<rxNow, rxPc>>
              [] os_read = "empty" ->
                   /\ rxPc' = "enter"
                   /\ UNCHANGED <<rxNow, rxNext>>
              [] OTHER ->
                   /\ rxNow' = rxNow + DRAIN_PAUSE
                   /\ UNCHANGED <<rxNext, rxPc>>
       ELSE /\ rxPc' = "enter"
            /\ UNCHANGED <<rxNow, rxNext>>
  /\ UNCHANGED <<tmVars, cleanVars, pwdVars, rxSource, rxIdle, rxTimeout, rxAttempt, rxExc,
                 rxText, rxDrainStart, output_chunks, start_time, last_read_time,
                 retry_count, buffer, rxBytesRead, rxIdleRun>>

\* The command of the first attempt has just been written to a live
\* session, the source starts, and the reader is called.
ReaderInit ==
  /\ SessionInit /\ CleanIdle
  /\ rxNow = 0
  /\ rxSource \in Sources /\ rxNext = 0 /\ rxIdle \in IdleKinds
  /\ rxTimeout \in Timeouts
  /\ rxPc = "enter" /\ rxAttempt = 0 /\ rxExc = "none" /\ rxText = <<>>
  /\ rxDrainStart = 0
  /\ output_chunks = <<>> /\ start_time = 0 /\ last_read_time = 0
  /\ retry_count = 0 /\ buffer = <<>>
  /\ rxBytesRead = <<>> /\ rxIdleRun = 0
  /\ rxPhase = "cmd" /\ rxOutput = <<>> /\ rxCwd = <<>>
  /\ rxReplies = FALSE /\ rxReplied = FALSE

ReaderNext ==
  \/ RxEnter
  \/ RxTurn
  \/ RxWake
  \/ RxHandler
  \/ RxRetry
  \/ RxDrain

ReaderSpec == ReaderInit /\ [][ReaderNext]_vars

\* ---- the pwd probe after the read ------------------------------------------
MaxProbeStreamLen == 2    \* bytes the command emits in all, in ProbeSpec

\* Lines 256-262 and 347-351: the reader has returned the command's output;
\* _get_current_directory writes the probe, whole, and calls the reader
\* with its own timeout.
RxPwd ==
  /\ rxPc = "returned" /\ rxPhase = "cmd"
  /\ rxOutput' = rxText
  /\ rxPhase' = "pwd"
  /\ rxPc' = "enter"
  /\ UNCHANGED <<tmVars, cleanVars, rxNow, rxSource, rxNext, rxIdle, rxTimeout,
                 rxAttempt, rxExc, rxText, rxDrainStart, output_chunks, start_time,
                 last_read_time, retry_count, buffer, rxBytesRead, rxIdleRun,
                 rxCwd, rxReplies, rxReplied>>

\* Lines 352-356: the probe's reader has returned or raised; what it read
\* is cleaned, and the result, unless empty, is the directory.
get_current_directory(returned, output) ==
  LET cleaned == clean_output(PwdCommand, output)
  IN  IF returned /\ cleaned # <<>> THEN strip(cleaned) ELSE WorkingDir

RxCwd ==
  /\ rxPc \in {"returned", "pwd_failed"} /\ rxPhase = "pwd"
  /\ rxCwd' = get_current_directory(rxPc = "returned", rxText)
  /\ rxPc' = "done"
  /\ UNCHANGED <<tmVars, cleanVars, rxNow, rxSource, rxNext, rxIdle, rxTimeout,
                 rxAttempt, rxExc, rxText, rxDrainStart, output_chunks, start_time,
                 last_read_time, retry_count, buffer, rxBytesRead, rxIdleRun,
                 rxPhase, rxOutput, rxReplies, rxReplied>>

ProbeSources == SourcesOf(MaxProbeStreamLen) \cup {ExampleSource}

\* As ReaderInit; the shell will answer the probe, or will not.
ProbeInit ==
  /\ SessionInit /\ CleanIdle
  /\ rxNow = 0
  /\ rxSource \in ProbeSources /\ rxNext = 0 /\ rxIdle \in IdleKinds
  /\ rxTimeout \in Timeouts
  /\ rxPc = "enter" /\ rxAttempt = 0 /\ rxExc = "none" /\ rxText = <<>>
  /\ rxDrainStart = 0
  /\ output_chunks = <<>> /\ start_time = 0 /\ last_read_time = 0
  /\ retry_count = 0 /\ buffer = <<>>
  /\ rxBytesRead = <<>> /\ rxIdleRun = 0
  /\ rxPhase = "cmd" /\ rxOutput = <<>> /\ rxCwd = <<>>
  /\ rxReplies \in BOOLEAN /\ rxReplied = FALSE

ProbeNext ==
  \/ RxEnter
  \/ RxTurn
  \/ RxWake
  \/ RxHandler
  \/ RxRetry
  \/ RxDrain
  \/ RxPwd
  \/ RxCwd

ProbeSpec == ProbeInit /\ [][ProbeNext]_vars

\* ========================================================================
\* Properties
\* ========================================================================

\* Every field of the session is in the not-alive state.
StoppedState ==
  master_fd = None /\ slave_fd = None /\ shell_pid = None /\ ~process_alive

\* Task t is inside the stop/start cycle of _ensure_connection (lines 61-71).
InCycle(t) ==
  /\ op[t] \in {"ensure", "execute"}
  /\ pc[t] \in {"ec_stop", "ec_sleep", "ec_after", "start", "st_body", "st_sleep",
                "st_vloop", "st_clear", "st_cloop", "st_except", "st_ret"}

\* C1: stop(), wherever it is called (the public call in any state the other
\* tasks have left the session in, line 61, line 77, line 144), does not
\* raise and leaves master_fd, slave_fd and shell_pid None and the session
\* not alive; called on a session already in that state it changes nothing.
C1_StopSafeAndIdempotent ==
  [][\A t \in Tasks :
       (pc[t] \in StopSites /\ pc'[t] # pc[t]) =>
          /\ ~stopRaised'
          /\ StoppedState'
          /\ (StoppedState => UNCHANGED sessVars)]_vars

\* stop() has returned to a caller that invoked it while another task was in
\* the middle of start() (forked, marked alive, waiting for the shell).
C1_Witness ==
  \E t, u \in Tasks :
    /\ t # u /\ pc[t] = "stop_ret" /\ ~raised[t]
    /\ pc[u] \in {"st_sleep", "st_vloop", "st_cloop"}
    /\ StoppedState

\* C2: between calls and at every suspension point, master_fd is non-null
\* exactly when the session is alive, and shell_pid is set exactly when it is
\* alive.
C2_HandleIffAlive ==
  running = 0 =>
    /\ (master_fd # None) <=> process_alive
    /\ (shell_pid # None) <=> process_alive

\* C3: every child that was spawned and not force-killed is the one the
\* session tracks, so at most one child is live and a spawn finds every
\* earlier child killed; and at most one task at a time is inside the
\* stop/start cycle of _ensure_connection.
C3_AtMostOneChild ==
  /\ \A c \in Pids : child[c] # "free" => c = shell_pid
  /\ Cardinality({ c \in Pids : child[c] = "live" }) <= 1
  /\ Cardinality({ t \in Tasks : InCycle(t) }) <= 1
  /\ \A t \in Tasks : InCycle(t) => lock_holder = t

\* One caller is reconnecting with a freshly spawned live child while
\* another, whose probe also failed, waits for the lock.
C3_Witness ==
  \E t, u \in Tasks :
    /\ t # u /\ InCycle(t) /\ pc[t] = "st_sleep" /\ pc[u] = "ec_wait"
    /\ shell_pid # None /\ child[shell_pid] = "live"

\* C4: reconnect_attempts stays within 0..MAX_RECONNECT_ATTEMPTS; it grows
\* only by one, in a step of the task that holds the reconnection lock; it
\* shrinks only to 0, in the step in which the lock holder finds the session
\* alive after start() and returns True.
C4_CounterBounded ==
  [][/\ reconnect_attempts' \in 0 .. MAX_RECONNECT_ATTEMPTS
     /\ reconnect_attempts' > reconnect_attempts =>
          /\ reconnect_attempts' = reconnect_attempts + 1
          /\ lock_holder # 0 /\ lock_holder' = lock_holder
          /\ running = lock_holder
     /\ reconnect_attempts' < reconnect_attempts =>
          /\ reconnect_attempts' = 0
          /\ lock_holder # 0 /\ running = lock_holder
          /\ process_alive /\ ecRet'[lock_holder]]_vars

\* The counter is at its maximum while one caller reconnects and another
\* waits for the lock.
C4_Witness ==
  /\ reconnect_attempts = MAX_RECONNECT_ATTEMPTS
  /\ \E t, u \in Tasks : t # u /\ InCycle(t) /\ pc[u] = "ec_wait"

\* C5: a call of _ensure_connection that reaches the budget check with the
\* session not alive and reconnect_attempts >= 3 returns False without
\* entering the stop/start cycle and leaves the counter as it was; and the
\* counter equals the number of reconnections that failed in a row plus the
\* one in progress, so after three failures in a row every call is such a call.
C5_BudgetExhaustedReturnsFalse ==
  /\ \A t \in Tasks :
       (ecLockAtt[t] >= MAX_RECONNECT_ATTEMPTS /\ ~ecLockAlive[t]) =>
          \/ pc[t] = "ec_body"
          \/ /\ pc[t] \in {"ec_ret", "ec_done"}
             /\ ~ecRet[t] /\ ~ecCycle[t]
             /\ reconnect_attempts = ecLockAtt[t]
  /\ reconnect_attempts = consecFails + Cardinality({ t \in Tasks : InCycle(t) })
  /\ consecFails >= MAX_RECONNECT_ATTEMPTS => BudgetExhausted(reconnect_attempts)

\* The fourth call after three failed reconnections has returned False.
C5_Witness ==
  \E t \in Tasks :
    /\ pc[t] = "ec_done" /\ ~ecRet[t] /\ ~ecCycle[t]
    /\ ecLockAtt[t] = MAX_RECONNECT_ATTEMPTS /\ ~ecLockAlive[t]
    /\ consecFails = MAX_RECONNECT_ATTEMPTS

\* C6: once the budget has been found exhausted, a start() that succeeds
\* leaves reconnect_attempts at 0.
C6_FailedNotTerminal ==
  \A t \in Tasks :
    (budgetHit /\ pc[t] = "start_done" /\ ~raised[t] /\ process_alive)
      => reconnect_attempts = 0

\* C7: a connection failure inside execute_command is raised at once: the
\* call does not wait for a retry and calls _ensure_connection once.
C7_ConnectionFailureImmediate ==
  \A t \in Tasks :
    /\ pc[t] = "ex_retry" => exc[t] # "Conn"
    /\ exc0[t] = "Conn" => ecCalls[t] <= 1

\* C7 as amended: a connection failure in the first attempt is followed by
\* the one retry, which calls _ensure_connection again; in the second attempt
\* it is raised at once.  One call makes at most two calls of
\* _ensure_connection and takes at most two attempts from the budget.
C7_ConnectionFailureRetriedOnce ==
  \A t \in Tasks :
    op[t] = "execute" =>
      /\ ecCalls[t] = attempt[t] + 1 /\ ecCalls[t] <= RangeAttempts
      /\ exIncs[t] <= ecCalls[t]
      /\ pc[t] = "ex_retry" => attempt[t] = 0
      /\ (pc[t] = "ex_except" /\ exc[t] = "Conn") => ~ecRet[t]
      /\ (pc[t] = "ex_done" /\ exc[t] = "Conn") =>
            (attempt[t] = 1 /\ outcome[t] = "raised" /\ exc0[t] # "none")

\* Both attempts of one call ended in a connection failure; it was raised.
C7_Witness ==
  \E t \in Tasks :
    /\ pc[t] = "ex_done" /\ outcome[t] = "raised"
    /\ exc[t] = "Conn" /\ exc0[t] = "Conn" /\ ecCalls[t] = 2

\* C8: a timeout of the reader in the first attempt is raised at once: there
\* is no second attempt and the command is written once.
C8_TimeoutImmediate ==
  \A t \in Tasks :
    /\ exc0[t] # "Timeout"
    /\ (pc[t] = "ex_except" /\ exc[t] = "Timeout") => cmdWrites[t] = 1

\* C9: execute_command makes at most two attempts; a failure of the first
\* leads to the one retry, a failure of the second is raised; the call ends
\* by returning (cwd, output) or by raising; the command is written at most
\* once per attempt, so at most twice.
C9_AtMostTwoAttempts ==
  \A t \in Tasks :
    op[t] = "execute" =>
      /\ attempt[t] \in 0 .. (RangeAttempts - 1)
      /\ cmdWrites[t] <= attempt[t] + 1
      /\ attempt[t] = 1 => exc0[t] \in {"OSError", "Timeout", "Runtime", "Conn"}
      /\ pc[t] = "ex_retry" => (attempt[t] = 0 /\ exc[t] # "none")
      /\ pc[t] = "ex_done" =>
           \/ outcome[t] = "returned" /\ cwd[t] \in {"probe", "working_dir"}
           \/ outcome[t] = "raised" /\ attempt[t] = 1 /\ exc[t] # "none"

\* A call whose two attempts both wrote the command and failed has raised.
C9_Witness ==
  \E t \in Tasks :
    /\ pc[t] = "ex_done" /\ outcome[t] = "raised" /\ attempt[t] = 1
    /\ cmdWrites[t] = 2 /\ exc0[t] = "OSError"

\* C10: after a short write execute_command raises RuntimeError and reads
\* the primary handle no more.
C10_ShortWriteRaisesNoRead ==
  \A t \in Tasks :
    shortAt[t] >= 0 =>
      /\ ~readAfterShort[t]
      /\ pc[t] # "ex_retry"
      /\ pc[t] = "ex_done" => (outcome[t] = "raised" /\ exc[t] = "Runtime")

\* C10 as amended: a short write ends its attempt with RuntimeError and the
\* attempt reads the primary handle no more; in the second attempt the error
\* is raised to the caller, in the first it leads to the one retry.
C10_ShortWriteEndsAttempt ==
  \A t \in Tasks :
    shortAt[t] >= 0 =>
      /\ ~readSameAttempt[t]
      /\ shortAt[t] = attempt[t] =>
           /\ pc[t] \in {"ex_except", "ex_retry", "ex_done"}
           /\ exc[t] = "Runtime"
           /\ pc[t] = "ex_retry" => attempt[t] = 0
           /\ pc[t] = "ex_done" => (outcome[t] = "raised" /\ attempt[t] = 1)
      /\ shortAt[t] < attempt[t] => exc0[t] = "Runtime"

\* A short write in the second attempt has been raised to the caller.
C10_Witness ==
  \E t \in Tasks :
    /\ shortAt[t] = 1 /\ pc[t] = "ex_done"
    /\ outcome[t] = "raised" /\ exc[t] = "Runtime"

\* C11: a failure of the working-directory probe (its write, its read, an
\* empty cleaned result) makes execute_command return the configured
\* working_dir with the command's output: the attempt does not fail, so the
\* command is not sent again.
C11_ProbeFailureFallsBack ==
  \A t \in Tasks :
    /\ pwdWriteFailed[t] =>
         (pc[t] = "ex_done" /\ outcome[t] = "returned" /\ cwd[t] = "working_dir")
    /\ phase[t] = "pwd" => pc[t] \notin {"ex_except", "ex_retry"}
    /\ (phase[t] = "pwd" /\ pc[t] = "ex_done") =>
         (outcome[t] = "returned" /\ cwd[t] \in {"probe", "working_dir"})

\* C15: start() ends either by raising with the session fully stopped, or
\* normally with the session alive and its handle and child set.
C15_StartFailsStopped ==
  \A t \in Tasks :
    pc[t] = "st_ret" =>
      IF raised[t] THEN StoppedState
      ELSE process_alive /\ master_fd # None /\ shell_pid # None

\* C17: an I/O error of a read or write on the primary handle fails the
\* attempt: it is retried once and raised when it recurs; execute_command
\* never returns normally from an attempt whose command read hit an I/O error.
C17_IoFailureRetriedThenRaised ==
  \A t \in Tasks :
    /\ (readFailed[t] /\ pc[t] = "ex_done") => outcome[t] = "raised"
    /\ (pc[t] = "ex_done" /\ exc[t] = "OSError") =>
         (attempt[t] = 1 /\ outcome[t] = "raised")

\* The lines of a text, split at "\n" alone; the empty text has none.
RECURSIVE SplitLF(_, _)
SplitLF(s, cur) ==
  IF s = <<>> THEN <<cur>>
  ELSE IF Head(s) = LF THEN <<cur>> \o SplitLF(Tail(s), <<>>)
  ELSE SplitLF(Tail(s), Append(cur, Head(s)))

LinesOf(s) == IF s = <<>> THEN <<>> ELSE SplitLF(s, <<>>)

\* A line without its surrounding whitespace, said without recursion.
Trimmed(l) ==
  LET ink == { k \in 1 .. Len(l) : ~IsSpace(l[k]) }
  IN  IF ink = {} THEN <<>>
      ELSE SubSeq(l, CHOOSE a \in ink : \A b \in ink : a <= b,
                     CHOOSE a \in ink : \A b \in ink : a >= b)

MarkerFree(l) ==
  /\ ~Contains(<<36, 32>>, l) /\ ~Contains(<<35, 32>>, l) /\ ~Contains(<<62, 32>>, l)

NonEmptyMarkerFree(l) == l # <<>> /\ MarkerFree(l)

\* C12: clean("cmd", "cmd\n$ cmd\nhello\n$ ") is exactly "hello".
C12_CleaningExample ==
  (clPc = "done" /\ clCommand = ExampleCommand /\ clOutput = ExampleOutput)
    => clResult = ExampleCleaned

\* C20: every line of the cleaned text is non-empty, has no whitespace at
\* either end and contains no prompt marker; and the lines are, in order,
\* the trimmed lines of the escape-stripped input, without a first line that
\* contains the command, that are non-empty and marker-free.
C20_CleanLinesTrimmedMarkerFree ==
  clPc = "done" =>
    LET res == LinesOf(clResult)
        src == DropEcho(clCommand, splitlines(ansi_escape_sub(clOutput)))
        trimmed == [k \in 1 .. Len(src) |-> Trimmed(src[k])]
    IN  /\ \A k \in 1 .. Len(res) :
             /\ res[k] # <<>>
             /\ ~IsSpace(res[k][1]) /\ ~IsSpace(res[k][Len(res[k])])
             /\ MarkerFree(res[k])
        /\ res = SelectSeq(trimmed, NonEmptyMarkerFree)

\* The echoed first line was dropped, a line lost whitespace at an end and
\* was kept, and a line was dropped for a prompt marker.
C20_Witness ==
  /\ clPc = "done"
  /\ LET all == splitlines(ansi_escape_sub(clOutput))
         src == DropEcho(clCommand, all)
     IN  /\ Len(src) < Len(all)
         /\ \E i, j \in 1 .. Len(src) :
              /\ src[i] # Trimmed(src[i]) /\ NonEmptyMarkerFree(Trimmed(src[i]))
              /\ ~MarkerFree(Trimmed(src[j]))

\* ---- the timed reader ---------------------------------------------------
ExampleRun == rxSource = ExampleSource /\ rxTimeout = 10

\* C13 as stated: with the source that emits "A" at once and "B" three
\* seconds later and timeout = 10, the reader returns "AB", and only after
\* more than 2 seconds have passed since "B" was emitted.
C13_ReturnsABAfterQuiet ==
  (ExampleRun /\ rxPc = "returned") =>
    /\ rxText = <<65, 66>>
    /\ rxNow - Arrival(rxSource, 2) > QUIET_SECONDS * TicksPerSecond

\* C13, amended: with that source the reader never raises and returns "A"
\* alone; it returns only after more than 2 seconds have passed with no
\* byte following "A", which is before "B" is emitted, and "B" stays unread.
C13_ReturnsAAfterQuiet ==
  ExampleRun =>
    /\ rxPc \notin {"handler", "backoff", "drain", "raised"} /\ rxAttempt = 0
    /\ rxPc = "returned" =>
         /\ rxText = <<65>>
         /\ rxNext = 1
         /\ rxNow - Arrival(rxSource, 1) > QUIET_SECONDS * TicksPerSecond
         /\ rxNow < Arrival(rxSource, 2)

\* The reader has returned in the run of the example.
C13_Witness == ExampleRun /\ rxPc = "returned" /\ rxBytesRead = <<65>>

\* C14: with a source that never emits and timeout = 2 the reader does not
\* return and raises nothing but the timeout, it raises it at the first
\* check of the clock at which more than 2 seconds have elapsed (the check
\* one read interval earlier did not exceed them), and execute_command
\* hands that failure to its caller: no pause, no second attempt.
C14_NoDataTimeoutSurfaces ==
  (rxSource = <<>> /\ rxTimeout = 2 /\ rxIdle # "OSError") =>
    /\ rxPc # "returned"
    /\ rxExc \in {"none", "Timeout"}
    /\ rxPc = "handler" =>
         /\ rxNow - start_time > rxTimeout * TicksPerSecond
         /\ rxNow - start_time - READ_TIMEOUT <= rxTimeout * TicksPerSecond
    /\ rxPc \notin {"backoff", "drain"} /\ rxAttempt = 0

\* C16: every read attempt that yields no bytes, the would-block condition
\* included, increments the retry counter (so, until a byte is read, the
\* counter equals the number of such attempts), and after 50 consecutive
\* such attempts the reader is no longer looping.
C16_EveryEmptyReadCounts ==
  /\ (rxPc \in {"loop", "sleep"} /\ rxBytesRead = <<>>) => retry_count = rxIdleRun
  /\ rxIdleRun >= MAX_READ_RETRIES => rxPc \notin {"loop", "sleep"}

\* C18: the reader raises the timeout only if it has read no byte at all
\* since its loop began, a byte still held undecoded in the buffer included.
C18_TimeoutOnlyWithoutBytes ==
  (rxPc = "handler" /\ rxExc = "Timeout") => rxBytesRead = <<>>

\* b is the beginning of a UTF-8 form whose remaining bytes are missing.
IncompleteForm(b) ==
  b # <<>> /\ Utf8Need(b[1]) > Len(b) /\ Utf8Run(b, 1, 1) = Len(b)

\* bytes is the beginning of a valid UTF-8 stream: complete forms, then at
\* most one form that is cut short.
ValidStream(bytes) ==
  \E k \in 0 .. Len(bytes) :
    /\ decode(SubSeq(bytes, 1, k)).ok
    /\ k = Len(bytes) \/ IncompleteForm(SubSeq(bytes, k + 1, Len(bytes)))

\* C19: when the bytes a reader call has read are the beginning of a valid
\* UTF-8 stream, whatever the chunks they came in, the buffer holds the
\* last bytes read, which are nothing or end with a form cut short, and the
\* text accumulated is the decoding of all the bytes before them; the text
\* returned is that decoding followed by the replacement decoding of the
\* buffer, which makes it the decoding of all bytes read, without any
\* replacement when they end with a complete form.
C19_DecodesEveryByteOnce ==
  ValidStream(rxBytesRead) =>
    LET n == Len(rxBytesRead) - Len(buffer)
        done == decode(SubSeq(rxBytesRead, 1, n))
    IN  /\ n >= 0
        /\ SubSeq(rxBytesRead, n + 1, Len(rxBytesRead)) = buffer
        /\ buffer = <<>> \/ (ValidStream(buffer) /\ ~decode(buffer).ok)
        /\ done.ok
        /\ IF rxPc = "returned"
             THEN /\ rxText = done.text \o decode_replace(buffer)
                  /\ rxText = decode_replace(rxBytesRead)
                  /\ decode(rxBytesRead).ok =>
                       (buffer = <<>> /\ rxText = decode(rxBytesRead).text)
             ELSE join_chunks(output_chunks) = done.text

\* The reader has returned a text whose bytes came in chunks one of which
\* ended inside a character.
C19_Witness ==
  /\ rxPc = "returned" /\ rxAttempt = 0
  /\ decode(rxBytesRead).ok
  /\ \E c \in 1 .. rxNext : ~decode(rxSource[c].bytes).ok
  /\ \E i \in 1 .. Len(rxText) : rxText[i] > 127

\* ---- reconnection ---------------------------------------------------------
\* C21: _ensure_connection never raises; when the start() of its
\* reconnection has raised it returns False with reconnect_attempts one above
\* what it found, the session not alive and the lock released; and a call
\* enters the stop/start cycle exactly when the counter it finds under the
\* lock is below 3, whatever earlier calls have failed.
C21_StartFailureReturnsFalse ==
  \A t \in Tasks :
    /\ pc[t] \in {"ec_ret", "ec_done"} => ~raised[t]
    /\ (pc[t] \in {"ec_ret", "ec_done"} /\ ecStartRaised[t]) =>
         /\ ~ecRet[t]
         /\ reconnect_attempts = ecAttBefore[t] + 1
         /\ StoppedState
         /\ lock_holder # t
    /\ pc[t] = "ec_stop" => ecAttBefore[t] \in 0 .. (MAX_RECONNECT_ATTEMPTS - 1)
    /\ (ecLockAtt[t] \in 0 .. (MAX_RECONNECT_ATTEMPTS - 1) /\ pc[t] # "ec_body")
         => pc[t] = "ec_stop"

\* A call made after one reconnection had failed found the counter at 1,
\* retried, and has returned False because its start() raised.
C21_Witness ==
  \E t \in Tasks :
    /\ pc[t] = "ec_done" /\ ecStartRaised[t] /\ ~ecRet[t]
    /\ ecAttBefore[t] = 1 /\ reconnect_attempts = 2 /\ consecFails = 2

\* C22: a caller that obtains the reconnection lock after waiting for it,
\* and finds the session alive and the counter reset to 0 by the caller that
\* re-established it, returns True without entering the stop/start cycle and
\* leaves the counter at 0.
C22_WaiterKeepsLiveSession ==
  \A t \in Tasks :
    (ecLockAlive[t] /\ ecLockAtt[t] = 0) =>
      \/ pc[t] = "ec_body"
      \/ /\ pc[t] \in {"ec_ret", "ec_done"}
         /\ ecRet[t] /\ ~ecCycle[t]
         /\ reconnect_attempts = 0

\* ---- the working directory ---------------------------------------------------
\* C23: the directory execute_command returns is what the shell printed in
\* answer to the pwd probe, cleaned, or is the configured working
\* directory; output of the command that arrives after the first read has
\* stopped is no part of it.
C23_CwdFromProbeOnly ==
  rxPc = "done" =>
    rxCwd \in {WorkingDir, strip(clean_output(PwdCommand, decode_replace(PwdReply)))}

====
